---- MODULE Spec2Model ----
(***************************************************************************)
(* Model of generate_ics.py: the ICS feed generator for the London         *)
(* Buddhist Centre "What's On" pages.                                      *)
(*                                                                         *)
(* Strings that the program takes apart (href, title text, url, the text   *)
(* hashed into the UID) are sequences of tokens, so that startswith, strip,*)
(* split/join and concatenation are computed, not assumed.                 *)
(* A card is described by what the selectors and regular expressions of    *)
(* iter_event_cards find in it.                                            *)
(***************************************************************************)
EXTENDS Integers, Sequences, FiniteSets, TLC

\* ------------------------------------------------------------------ bounds
\* Total number of items the pages of one run yield (skipped cards are not
\* counted).
MaxCards == 2
\* Year shown by the Europe/London clock when the run starts.
StartYear == 2025

\* --------------------------------------------------------------- constants
BASE == <<"https://", "www.londonbuddhistcentre.com">>
OUTFILE == "docs/lbc.ics"
CATEGORY_PAGES == <<"Meditation", "Buddhism", "Retreats", "Yoga", "Courses", "Online">>
\* Content of docs/lbc.ics left by an earlier run.
OldContent == [properties |-> { <<"PRODID", "an earlier run">> }, vevents |-> <<>>]

VARIABLES
    pc,        \* position of main(): "main", "fetch", "cards", "write", "done", "aborted"
    pageIdx,   \* index into CATEGORY_PAGES of the page of the for loop
    cal,       \* the Calendar under construction (0-tuple before Calendar())
    seen,      \* the set of dedup keys
    outfile,   \* content of OUTFILE
    writes,    \* number of OUTFILE.write_bytes calls
    requests,  \* the GET requests issued, in order: page index and outcome
    nowYear,   \* datetime.now(TZ).year
    card,      \* the card last taken from soup.select (loop variable)
    lastYield, \* what iter_event_cards did with it: "none", "skip", "raise", "item"
    yielded,   \* the items yielded by iter_event_cards so far, in order
    skipped    \* whether iter_event_cards has skipped a card so far

vars == <<pc, pageIdx, cal, seen, outfile, writes, requests, nowYear, card, lastYield,
          yielded, skipped>>

\* ----------------------------------------------------------- text helpers
RECURSIVE lstrip(_)
lstrip(s) == IF s # <<>> /\ Head(s) = " " THEN lstrip(Tail(s)) ELSE s

RECURSIVE rstrip(_)
rstrip(s) == IF s # <<>> /\ s[Len(s)] = " " THEN rstrip(SubSeq(s, 1, Len(s) - 1)) ELSE s

\* str.strip()
strip(s) == rstrip(lstrip(s))

IsWord(t) == t # " "

RECURSIVE join(_)
join(ws) == IF ws = <<>> THEN <<>>
            ELSE IF Len(ws) = 1 THEN ws
            ELSE <<Head(ws), " ">> \o join(Tail(ws))

\* " ".join(s.split())
normalize_ws(s) == join(SelectSeq(s, IsWord))

absolute_url(href) ==
    IF href # <<>> /\ Head(href) \in {"http://", "https://"} THEN href
    ELSE IF href # <<>> /\ Head(href) = "/" THEN BASE \o href
    ELSE BASE \o <<"/">> \o href

\* ------------------------------------------------- dates and times of day
Months == <<"Jan", "Feb", "Mar", "Apr", "May", "Jun", "Jul", "Aug", "Sep", "Oct", "Nov", "Dec">>

MonthNum(mon) == CHOOSE i \in 1..12 : Months[i] = mon

IsLeap(y) == (y % 4 = 0 /\ y % 100 # 0) \/ y % 400 = 0

DaysIn(m, y) ==
    IF m = 2 THEN (IF IsLeap(y) THEN 29 ELSE 28)
    ELSE IF m \in {4, 6, 9, 11} THEN 30 ELSE 31

\* A time of day as parse_time_range captures it: "h:mi ap".
Time(h, mi, ap) == [h |-> h, mi |-> mi, ap |-> ap]

\* dateutil: the hour of a 12-hour clock time.
Hour24(t) ==
    IF t.ap = "pm" /\ t.h < 12 THEN t.h + 12
    ELSE IF t.ap = "am" /\ t.h = 12 THEN 0
    ELSE t.h

\* dateutil parserinfo.convertyear: a year without century is placed within
\* 50 years of the current year.
convertyear(y, thisYear) ==
    LET c == y + (thisYear \div 100) * 100
    IN  IF c >= thisYear + 50 THEN c - 100
        ELSE IF c < thisYear - 50 THEN c + 100
        ELSE c

\* dtparser.parse(f"{day} {mon} {year} {t}", dayfirst=True): the year is
\* written without padding; dateutil takes a number above 100 for the year,
\* otherwise the first number is the day unless it exceeds 31, and a year
\* below 100 is completed by convertyear.  A 12-hour clock hour above 12 and
\* a date or time datetime() refuses raise ValueError.
dtparse(day, mon, year, t, thisYear) ==
    LET swap == year <= 100 /\ day > 31
        y0   == IF swap THEN day ELSE year
        d    == IF swap THEN year ELSE day
        y    == IF y0 < 100 THEN convertyear(y0, thisYear) ELSE y0
        m    == MonthNum(mon)
        ok   == /\ t.h \in 0..12
                /\ t.mi \in 0..59
                /\ y \in 1..9999
                /\ d >= 1 /\ d <= DaysIn(m, y)
    IN  IF ok
        THEN [ok |-> TRUE,
              dt |-> [year |-> y, month |-> m, day |-> d, hour |-> Hour24(t), minute |-> t.mi]]
        ELSE [ok |-> FALSE]

Pad2(n) == IF n < 10 THEN <<"0", ToString(n)>> ELSE <<ToString(n)>>

Pad4(n) ==
    IF n < 10 THEN <<"000", ToString(n)>>
    ELSE IF n < 100 THEN <<"00", ToString(n)>>
    ELSE IF n < 1000 THEN <<"0", ToString(n)>>
    ELSE <<ToString(n)>>

\* datetime.isoformat(): "YYYY-MM-DDTHH:MM:00" followed by the UTC offset.
\* The offset is determined by the wall-clock fields (fold is never set), so
\* it is left out.
isoformat(dt) ==
    Pad4(dt.year) \o <<"-">> \o Pad2(dt.month) \o <<"-">> \o Pad2(dt.day)
        \o <<"T">> \o Pad2(dt.hour) \o <<":">> \o Pad2(dt.minute) \o <<":", "00">>

\* Order of two datetimes of the zone.
Before(a, b) ==
    LET ka == <<a.year, a.month, a.day, a.hour, a.minute>>
        kb == <<b.year, b.month, b.day, b.hour, b.minute>>
    IN  \E i \in 1..5 : ka[i] < kb[i] /\ \A j \in 1..(i - 1) : ka[j] = kb[j]

\* hashlib.sha256(text).hexdigest()[:24] + "@lbc-ics"; the digest is taken to
\* be collision free, so it is represented by the text it is computed from.
stable_uid(text) == <<"sha256">> \o text \o <<"@lbc-ics">>

\* ------------------------------------------------------------------ cards
\* A card (div.w-layout-grid.whatson-events) as the selectors and regular
\* expressions see it:
\*   link, href    the a[fs-list-element="item-link"] tag and its href ("" when
\*                 the attribute is missing)
\*   title, ttext  the h4[fs-list-field="keyword"] tag and its text
\*   dms           the day-month matches of the card text, in text order
\*   trs           the time-range matches of the card text, in text order
\*   hint          the nearest div.w-dyn-item ancestor: "noparent", "noattr"
\*                 (no data-end-time), "unparseable" or "date" with its year
\*   dtag, dtext   the .whats-on-content .text-size-small tag and its text
DM(d, m) == [day |-> d, mon |-> m]

TR(a, b) == [s |-> a, e |-> b]

BaseCard ==
    [link |-> TRUE, href |-> <<"/", "e">>,
     title |-> TRUE, ttext |-> <<"A">>,
     dms |-> <<DM(2, "Jan")>>,
     trs |-> <<TR(Time(8, 0, "am"), Time(9, 0, "am"))>>,
     hint |-> [kind |-> "date", year |-> 2024],
     dtag |-> TRUE, dtext |-> "blurb"]

LinkVariants ==
    { [BaseCard EXCEPT !.link = FALSE, !.href = <<>>] }
    \cup { [BaseCard EXCEPT !.href = h] :
             h \in { <<>>, <<" ">>, <<"e">>, <<" ", "/", "e">>, <<"https://", "other.org", "/", "e">> } }

TitleVariants ==
    { [BaseCard EXCEPT !.title = FALSE, !.ttext = <<>>] }
    \cup { [BaseCard EXCEPT !.ttext = t] :
             t \in { <<>>, <<" ">>, <<"B">>, <<" ", "A", " ">> } }

TextVariants ==
    { [BaseCard EXCEPT !.dms = <<>>],
      [BaseCard EXCEPT !.dms = <<DM(31, "Feb")>>],
      [BaseCard EXCEPT !.trs = <<>>],
      \* "Sat 3 Jan - Sat 24 Jan"
      [BaseCard EXCEPT !.dms = <<DM(3, "Jan"), DM(24, "Jan")>>, !.trs = <<>>],
      [BaseCard EXCEPT !.trs = <<TR(Time(8, 0, "am"), Time(10, 0, "am"))>>],
      [BaseCard EXCEPT !.trs = <<TR(Time(11, 0, "pm"), Time(1, 0, "am"))>>],
      [BaseCard EXCEPT !.trs = <<TR(Time(8, 0, "am"), Time(13, 0, "pm"))>>],
      [BaseCard EXCEPT !.trs = <<TR(Time(8, 60, "am"), Time(9, 0, "am"))>>] }

HintVariants ==
    { [BaseCard EXCEPT !.hint = h] :
        h \in { [kind |-> "noparent", year |-> 0],
                [kind |-> "noattr", year |-> 0],
                [kind |-> "unparseable", year |-> 0],
                [kind |-> "date", year |-> 50] } }

DescVariants ==
    { [BaseCard EXCEPT !.dtag = FALSE, !.dtext = ""],
      [BaseCard EXCEPT !.dtext = ""] }

\* The cards a page may contain.
Cards == {BaseCard} \cup LinkVariants \cup TitleVariants \cup TextVariants
            \cup HintVariants \cup DescVariants

\* ------------------------------------------------------- iter_event_cards
\* Lines 105-115: the year of the card.
card_year(c, now) ==
    IF c.hint.kind = "date" THEN c.hint.year ELSE now

\* Variant of parse_time_range that reads an all-day range as midnight to
\* midnight.
parse_time_range_allday(c) ==
    IF c.trs # <<>> THEN [found |-> TRUE, s |-> c.trs[1].s, e |-> c.trs[1].e]
    ELSE IF Len(c.dms) = 2
    THEN [found |-> TRUE, s |-> Time(12, 0, "am"), e |-> Time(12, 0, "am")]
    ELSE [found |-> FALSE]

\* parse_time_range: the first time range of the text, or (None, None).
parse_time_range(c) ==
    IF c.trs = <<>> THEN [found |-> FALSE] ELSE [found |-> TRUE, s |-> c.trs[1].s, e |-> c.trs[1].e]

\* Variant of iter_event_card without the test of the href (lines 86-87).
iter_event_card_nohref(c, now) ==
    IF ~c.link \/ ~c.title THEN [kind |-> "skip"]
    ELSE IF c.dms = <<>> THEN [kind |-> "skip"]
    ELSE IF c.trs = <<>> THEN [kind |-> "skip"]
    ELSE
        LET dm    == c.dms[1]
            year  == card_year(c, now)
            start == dtparse(dm.day, dm.mon, year, c.trs[1].s, now)
            end   == dtparse(dm.day, dm.mon, year, c.trs[1].e, now)
        IN  IF ~start.ok \/ ~end.ok THEN [kind |-> "raise"]
            ELSE [kind |-> "item",
                  item |-> [title |-> normalize_ws(c.ttext),
                            start |-> start.dt,
                            end   |-> end.dt,
                            url   |-> absolute_url(strip(c.href)),
                            desc  |-> IF c.dtag THEN c.dtext ELSE ""]]

\* One iteration of the loop of iter_event_cards on card c:
\* "skip" (continue), "raise" (an exception leaves the generator) or "item".
iter_event_card(c, now) ==
    IF ~c.link \/ ~c.title THEN [kind |-> "skip"]
    ELSE IF strip(c.href) = <<>> THEN [kind |-> "skip"]
    ELSE IF c.dms = <<>> THEN [kind |-> "skip"]
    ELSE IF ~parse_time_range(c).found THEN [kind |-> "skip"]
    ELSE
        LET dm    == c.dms[1]
            year  == card_year(c, now)
            tr    == parse_time_range(c)
            start == dtparse(dm.day, dm.mon, year, tr.s, now)
            end   == dtparse(dm.day, dm.mon, year, tr.e, now)
        IN  IF ~start.ok \/ ~end.ok THEN [kind |-> "raise"]
            ELSE [kind |-> "item",
                  item |-> [title |-> normalize_ws(c.ttext),
                            start |-> start.dt,
                            end   |-> end.dt,
                            url   |-> absolute_url(strip(c.href)),
                            desc  |-> IF c.dtag THEN c.dtext ELSE ""]]

\* --------------------------------------------------------- build_calendar
\* Variant of dedup_key that leaves the start out of the key.
dedup_key_nostart(item) == <<item.title, item.url>>

dedup_key(item) == <<item.title, isoformat(item.start), item.url>>

event_uid(item) == stable_uid(item.url \o <<"|">> \o isoformat(item.start))

\* The Event built from an item; description only when desc is not empty.
make_event(item) ==
    IF item.desc # ""
    THEN [uid |-> event_uid(item), summary |-> item.title, dtstart |-> item.start,
          dtend |-> item.end, url |-> item.url, description |-> item.desc]
    ELSE [uid |-> event_uid(item), summary |-> item.title, dtstart |-> item.start,
          dtend |-> item.end, url |-> item.url]

NewCalendar ==
    [prodid |-> "-//London Buddhist Centre//Auto ICS//EN",
     version |-> "2.0",
     calname |-> "London Buddhist Centre",
     timezone |-> "Europe/London",
     events |-> <<>>]

\* cal.to_ical(): the calendar properties, then one VEVENT block per entry.
to_ical(c) ==
    [properties |-> { <<"PRODID", c.prodid>>, <<"VERSION", c.version>>,
                      <<"X-WR-CALNAME", c.calname>>, <<"X-WR-TIMEZONE", c.timezone>> },
     vevents |-> c.events]

NoCard == [BaseCard EXCEPT !.link = FALSE, !.href = <<>>]

\* ------------------------------------------------------------ the program
Init ==
    /\ pc = "main"
    /\ pageIdx = 1
    /\ cal = [events |-> <<>>]
    /\ seen = {}
    /\ outfile = OldContent
    /\ writes = 0
    /\ requests = <<>>
    /\ nowYear = StartYear
    /\ card = NoCard
    /\ lastYield = "none"
    /\ yielded = <<>>
    /\ skipped = FALSE

\* main, lines 170-171, and build_calendar, lines 140-146.
MainStart ==
    /\ pc = "main"
    /\ pc' = "fetch"
    /\ cal' = NewCalendar
    /\ seen' = {}
    /\ pageIdx' = 1
    /\ UNCHANGED <<outfile, writes, requests, nowYear, card, lastYield, yielded, skipped>>

\* fetch(page) returns the page text.
FetchOk ==
    /\ pc = "fetch"
    /\ requests' = Append(requests, [page |-> pageIdx, ok |-> TRUE])
    /\ pc' = "cards"
    /\ UNCHANGED <<pageIdx, cal, seen, outfile, writes, nowYear, card, lastYield, yielded, skipped>>

\* Variant of FetchFail in which the error is caught and the page counts as
\* empty.
FetchFailSwallowed ==
    /\ pc = "fetch"
    /\ requests' = Append(requests, [page |-> pageIdx, ok |-> FALSE])
    /\ pc' = "cards"
    /\ UNCHANGED <<pageIdx, cal, seen, outfile, writes, nowYear, card, lastYield, yielded, skipped>>

\* fetch(page) raises (raise_for_status, timeout, connection error); nothing
\* catches it, so build_calendar and main are left.
FetchFail ==
    /\ pc = "fetch"
    /\ requests' = Append(requests, [page |-> pageIdx, ok |-> FALSE])
    /\ pc' = "aborted"
    /\ UNCHANGED <<pageIdx, cal, seen, outfile, writes, nowYear, card, lastYield, yielded, skipped>>

\* The next card of the page goes through iter_event_cards and, when an item
\* is yielded, through the body of the inner loop of build_calendar.
NextCard(c) ==
    /\ pc = "cards"
    /\ LET r == iter_event_card(c, nowYear)
       IN  /\ r.kind = "item" => Len(yielded) < MaxCards
           /\ card' = c
           /\ lastYield' = r.kind
           /\ IF r.kind = "skip" THEN
                  /\ skipped' = TRUE
                  /\ UNCHANGED <<pc, cal, seen, yielded>>
              ELSE IF r.kind = "raise" THEN
                  /\ pc' = "aborted"
                  /\ UNCHANGED <<cal, seen, yielded, skipped>>
              ELSE
                  /\ yielded' = Append(yielded, r.item)
                  /\ pc' = pc
                  /\ skipped' = skipped
                  /\ IF dedup_key(r.item) \in seen THEN
                         UNCHANGED <<cal, seen>>
                     ELSE
                         /\ seen' = seen \cup {dedup_key(r.item)}
                         /\ cal' = [cal EXCEPT !.events = Append(@, make_event(r.item))]
    /\ UNCHANGED <<pageIdx, outfile, writes, requests, nowYear>>

\* Variant of EndPage whose loop stops one page early.
EndPageEarly ==
    /\ pc = "cards"
    /\ IF pageIdx < Len(CATEGORY_PAGES) - 1
       THEN pc' = "fetch" /\ pageIdx' = pageIdx + 1
       ELSE pc' = "write" /\ pageIdx' = pageIdx
    /\ UNCHANGED <<cal, seen, outfile, writes, requests, nowYear, card, lastYield, yielded, skipped>>

\* The page has no further card: the outer loop goes to the next page, or
\* build_calendar returns.
EndPage ==
    /\ pc = "cards"
    /\ IF pageIdx < Len(CATEGORY_PAGES)
       THEN pc' = "fetch" /\ pageIdx' = pageIdx + 1
       ELSE pc' = "write" /\ pageIdx' = pageIdx
    /\ UNCHANGED <<cal, seen, outfile, writes, requests, nowYear, card, lastYield, yielded, skipped>>

\* Variant of WriteFile that does not write a calendar without entries.
WriteFileUnlessEmpty ==
    /\ pc = "write"
    /\ IF cal.events = <<>>
       THEN UNCHANGED <<outfile, writes>>
       ELSE outfile' = to_ical(cal) /\ writes' = writes + 1
    /\ pc' = "done"
    /\ UNCHANGED <<pageIdx, cal, seen, requests, nowYear, card, lastYield, yielded, skipped>>

\* main, lines 174-176.
WriteFile ==
    /\ pc = "write"
    /\ outfile' = to_ical(cal)
    /\ writes' = writes + 1
    /\ pc' = "done"
    /\ UNCHANGED <<pageIdx, cal, seen, requests, nowYear, card, lastYield, yielded, skipped>>

\* The Europe/London clock passes a New Year while the run is under way (a
\* run lasts minutes at most, so this happens at most once).
Tick ==
    /\ pc \in {"main", "fetch", "cards"}
    /\ nowYear = StartYear
    /\ nowYear' = nowYear + 1
    /\ UNCHANGED <<pc, pageIdx, cal, seen, outfile, writes, requests, card, lastYield, yielded, skipped>>

Next ==
    \/ MainStart
    \/ FetchOk
    \/ FetchFail
    \/ \E c \in Cards : NextCard(c)
    \/ EndPage
    \/ WriteFile
    \/ Tick

Spec == Init /\ [][Next]_vars

\* =================================================================== claims
\* A step in which the inner loops take one card.
CardStep == pc = "cards" /\ pc' \in {"cards", "aborted"} /\ nowYear' = nowYear

ItemKey(it) == <<it.title, it.start, it.url>>

EntryKey(e) == <<e.summary, e.dtstart, e.url>>

\* Index in yielded of the first item with key k.
FirstOcc(k) ==
    CHOOSE i \in 1..Len(yielded) :
        /\ ItemKey(yielded[i]) = k
        /\ \A j \in 1..(i - 1) : ItemKey(yielded[j]) # k

\* C1: the feed holds exactly one entry per distinct (title, start, url) among
\* the yielded items, in the order of their first occurrences, and each entry
\* has the end and the description of the first item with its key.
ThmC1 ==
    pc # "main" =>
        LET ev == cal.events
        IN  /\ \A i, j \in 1..Len(ev) : i # j => EntryKey(ev[i]) # EntryKey(ev[j])
            /\ {EntryKey(ev[i]) : i \in 1..Len(ev)} = {ItemKey(yielded[i]) : i \in 1..Len(yielded)}
            /\ \A i, j \in 1..Len(ev) :
                   i < j => FirstOcc(EntryKey(ev[i])) < FirstOcc(EntryKey(ev[j]))
            /\ \A i \in 1..Len(ev) :
                   LET f == yielded[FirstOcc(EntryKey(ev[i]))]
                   IN  /\ ev[i].dtend = f.end
                       /\ IF f.desc = "" THEN "description" \notin DOMAIN ev[i]
                          ELSE "description" \in DOMAIN ev[i] /\ ev[i].description = f.desc

\* Two items with one key and different end or description were yielded.
WitC1 ==
    \E i, j \in 1..Len(yielded) :
        /\ i < j
        /\ ItemKey(yielded[i]) = ItemKey(yielded[j])
        /\ (yielded[i].end # yielded[j].end \/ yielded[i].desc # yielded[j].desc)
        /\ Len(cal.events) < Len(yielded)

FetchFailed == \E i \in 1..Len(requests) : ~requests[i].ok

\* C2: once a fetch has failed the run is aborted, OUTFILE has not been
\* written and still has its previous content.
ThmC2 == FetchFailed => pc = "aborted" /\ writes = 0 /\ outfile = OldContent

\* A later page fails after earlier pages gave events.
WitC2 == FetchFailed /\ Len(requests) > 1 /\ Len(cal.events) >= 1

\* C3: every entry of the feed has start <= end.
CexC3 ==
    pc # "main" => \A i \in 1..Len(cal.events) : ~Before(cal.events[i].dtend, cal.events[i].dtstart)

EmptyFeed ==
    [properties |-> { <<"PRODID", "-//London Buddhist Centre//Auto ICS//EN">>,
                      <<"VERSION", "2.0">>,
                      <<"X-WR-CALNAME", "London Buddhist Centre">>,
                      <<"X-WR-TIMEZONE", "Europe/London">> },
     vevents |-> <<>>]

AllPagesFetched ==
    /\ Len(requests) = Len(CATEGORY_PAGES)
    /\ \A i \in 1..Len(requests) : requests[i].ok

MissingPart(c) == ~c.link \/ c.href = <<>> \/ ~c.title \/ c.dms = <<>> \/ c.trs = <<>>

\* The card has every part and its date and times exist.
Parseable(c, now) ==
    /\ c.link /\ strip(c.href) # <<>> /\ c.title /\ c.dms # <<>> /\ c.trs # <<>>
    /\ dtparse(c.dms[1].day, c.dms[1].mon, card_year(c, now), c.trs[1].s, now).ok
    /\ dtparse(c.dms[1].day, c.dms[1].mon, card_year(c, now), c.trs[1].e, now).ok

\* C5: a card missing a part is skipped, changes nothing and leaves the
\* extraction running; no item comes from such a card; a parseable card is
\* yielded whatever was skipped before it.
ThmC5 ==
    [][CardStep =>
        /\ MissingPart(card') =>
              /\ lastYield' = "skip"
              /\ pc' = "cards"
              /\ UNCHANGED <<cal, seen, yielded, pageIdx, requests, outfile>>
        /\ lastYield' = "item" => ~MissingPart(card')
        /\ Parseable(card', nowYear) =>
              /\ lastYield' = "item"
              /\ pc' = "cards"
              /\ Len(yielded') = Len(yielded) + 1]_vars

\* A card is yielded after another one was skipped.
WitC5 == lastYield = "item" /\ skipped /\ ~MissingPart(card) /\ yielded # <<>>

\* The text is an all-day range such as "Sat 3 Jan - Sat 24 Jan": two
\* day-month matches and no time range, in an otherwise complete card.
AllDayCard(c) ==
    c.link /\ strip(c.href) # <<>> /\ c.title /\ Len(c.dms) = 2 /\ c.trs = <<>>

CexC7 ==
    pc # "main" =>
        /\ \A i \in 1..Len(cal.events) : cal.events[i].summary # <<>>
        /\ (/\ lastYield # "none" /\ ~card.title
            /\ card.link /\ strip(card.href) # <<>> /\ card.dms # <<>> /\ card.trs # <<>>)
               => lastYield = "item"

\* C8: a yielded item starts and ends on the matched day and month of the
\* year of the data-end-time hint when there is a parseable one, else of the
\* current Europe/London year.
CexC8 ==
    [][(CardStep /\ lastYield' = "item") =>
          LET it == yielded'[Len(yielded')]
              dm == card'.dms[1]
              Y  == IF card'.hint.kind = "date" THEN card'.hint.year ELSE nowYear
          IN  /\ it.start.year = Y /\ it.end.year = Y
              /\ it.start.month = MonthNum(dm.mon) /\ it.end.month = MonthNum(dm.mon)
              /\ it.start.day = dm.day /\ it.end.day = dm.day]_vars

\* C9: the pages are requested one after the other in configuration order,
\* each at most once; cards are taken only from the page requested last; the
\* file is written at most once and only after every page was fetched and
\* gone through.
ThmC9 ==
    /\ Len(requests) <= Len(CATEGORY_PAGES)
    /\ \A i \in 1..Len(requests) : requests[i].page = i
    /\ \A i \in 1..(Len(requests) - 1) : requests[i].ok
    /\ pc = "fetch" => Len(requests) = pageIdx - 1
    /\ pc = "cards" => Len(requests) = pageIdx /\ requests[pageIdx].ok
    /\ pc = "main" => requests = <<>> /\ yielded = <<>>
    /\ pc \in {"write", "done"} => AllPagesFetched /\ pageIdx = Len(CATEGORY_PAGES)
    /\ writes = (IF pc = "done" THEN 1 ELSE 0)
    /\ writes = 0 => outfile = OldContent

WitC9 == pc = "done" /\ writes = 1 /\ Len(requests) = Len(CATEGORY_PAGES) /\ yielded # <<>>

\* C10: no two entries of the feed have the same UID.
CexC10 ==
    pc # "main" =>
        \A i, j \in 1..Len(cal.events) : i # j => cal.events[i].uid # cal.events[j].uid

====
